---- MODULE Spec2Model ----
(***************************************************************************)
(* Model of the template selection / validation / fill pipeline of         *)
(* notion-pdf-service:                                                      *)
(*   src/src/templates/template_manager.py   TemplateCatalog, Template      *)
(*   src/src/templates/enhanced_pdf_handler.py  EnhancedPDFHandler          *)
(*   src/src/handlers/pdf_handler.py         PDFHandler                     *)
(*                                                                         *)
(* Text is a sequence of Unicode code points.  A Python value is a record   *)
(* [kind, s, n, items]; only the field its kind uses is meaningful.         *)
(***************************************************************************)
EXTENDS Integers, Sequences, FiniteSets, TLC

VARIABLES
    templates,       \* TemplateCatalog.templates: ordered mapping id -> TemplateConfig
    data,            \* the record handed to the entry point (dict key -> value)
    disk,            \* template store: file name -> document | NoFile | Corrupt
    entry,           \* the public method the caller invoked
    pc,              \* position of the call
    returns,         \* results of the determine_template calls made so far
    template_type,   \* process_and_fill_pdf: template_type
    template,        \* the Template instance (template_path, config)
    error,           \* the exception propagating out of the call, or NoError
    processed_data,  \* Dict[str, str] in insertion order: <<field, text>> pairs
    fields,          \* PDFHandler.fields
    doc,             \* fill_pdf: local doc (None or the opened document)
    handles,         \* document handles currently open
    out,             \* what is stored at output_path
    idx,             \* fill_pdf: position in data.items()
    log,             \* history of the effects of the call, in order
    web,             \* handle_webhook: the request, its position and its effects
    th,              \* concurrent callers: the local variables of each
    heap             \* concurrent callers: the document objects they opened

vars == <<templates, data, disk, entry, pc, returns, template_type, template,
          error, processed_data, fields, doc, handles, out, idx, log,
          web, th, heap>>

\* the variables of the request handler and of the concurrent callers
ext == <<web, th, heap>>

----------------------------------------------------------------------------
(* Bounds of the model *)

MaxTemplates == 2    \* definitions in a catalog
MaxCalls == 2        \* repeated determine_template calls on one catalog
MaxPages == 2        \* pages of a template document

----------------------------------------------------------------------------
(* Python values *)

StrV(cps)  == [kind |-> "str",   s |-> cps,  n |-> 0, items |-> <<>>]
IntV(i)    == [kind |-> "int",   s |-> <<>>, n |-> i, items |-> <<>>]
FloatV(i)  == [kind |-> "float", s |-> <<>>, n |-> i, items |-> <<>>] \* the float i.0
BoolV(b)   == [kind |-> "bool",  s |-> <<>>, n |-> IF b THEN 1 ELSE 0, items |-> <<>>]
ListV(q)   == [kind |-> "list",  s |-> <<>>, n |-> 0, items |-> q]    \* list of str
NoneV      == [kind |-> "none",  s |-> <<>>, n |-> 0, items |-> <<>>]

NumericKinds == {"int", "float", "bool"}

\* Python's a == b.  bool is a subclass of int and int/float compare by value.
PyEq(a, b) ==
    IF a.kind \in NumericKinds /\ b.kind \in NumericKinds
    THEN a.n = b.n
    ELSE a = b

\* dict.get(key) / dict.get(key, default)
Get(d, k) == IF k \in DOMAIN d THEN d[k] ELSE NoneV
GetOr(d, k, default) == IF k \in DOMAIN d THEN d[k] ELSE default

RECURSIVE Digits(_)
Digits(i) == IF i < 10 THEN <<48 + i>> ELSE Digits(i \div 10) \o <<48 + (i % 10)>>

RECURSIVE JoinRepr(_)
\* "'a', 'b'": the elements of a list of str, each in quotes
JoinRepr(q) ==
    IF q = <<>> THEN <<>>
    ELSE <<39>> \o Head(q) \o <<39>> \o
         (IF Len(q) = 1 THEN <<>> ELSE <<44, 32>> \o JoinRepr(Tail(q)))

\* Python's str(v)
PyStr(v) ==
    CASE v.kind = "str"   -> v.s
      [] v.kind = "int"   -> IF v.n < 0 THEN <<45>> \o Digits(-v.n) ELSE Digits(v.n)
      [] v.kind = "float" -> (IF v.n < 0 THEN <<45>> \o Digits(-v.n) ELSE Digits(v.n))
                             \o <<46, 48>>
      [] v.kind = "bool"  -> IF v.n = 1 THEN <<84, 114, 117, 101>>
                                        ELSE <<70, 97, 108, 115, 101>>
      [] v.kind = "list"  -> <<91>> \o JoinRepr(v.items) \o <<93>>
      [] v.kind = "none"  -> <<78, 111, 110, 101>>

----------------------------------------------------------------------------
(* Exceptions *)

NoError == [type |-> "none", msg |-> "", missing |-> {}]
ValueError(m, miss) == [type |-> "ValueError", msg |-> m, missing |-> miss]
OtherError(t, m) == [type |-> t, msg |-> m, missing |-> {}]

NoMatchMsg == "No matching template found for the provided data"

----------------------------------------------------------------------------
(* TemplateCatalog.determine_template *)

\* all(data.get(key) == value for key, value in config.conditions.items())
ConditionsMet(config, d) ==
    \A key \in DOMAIN config.conditions : PyEq(Get(d, key), config.conditions[key])

RECURSIVE FirstMatchFrom(_, _, _)
\* the for loop over self.templates.items(), from position i on
FirstMatchFrom(ts, d, i) ==
    IF i > Len(ts) THEN [ok |-> FALSE, id |-> ""]
    ELSE IF ConditionsMet(ts[i].config, d) THEN [ok |-> TRUE, id |-> ts[i].id]
    ELSE FirstMatchFrom(ts, d, i + 1)

RECURSIVE LastMatchFrom(_, _, _)
LastMatchFrom(ts, d, i) ==
    IF i < 1 THEN [ok |-> FALSE, id |-> ""]
    ELSE IF ConditionsMet(ts[i].config, d) THEN [ok |-> TRUE, id |-> ts[i].id]
    ELSE LastMatchFrom(ts, d, i - 1)

\* Faulty variant of SelectTemplate: the loop keeps the last match instead of returning
\* at the first one.
SelectTemplateLast(ts, d) == LastMatchFrom(ts, d, Len(ts))

SelectTemplate(ts, d) == FirstMatchFrom(ts, d, 1)

----------------------------------------------------------------------------
(* Inputs of the determine_template checks *)

Migdal == <<109, 105, 103, 100, 97, 108>>    \* "migdal"
One == <<49>>                                \* "1"

TemplateIds == {"t" \o ToString(i) : i \in 1..MaxTemplates}

\* the dicts over some of the keys of vals, each key with one of its values
TypedDicts(vals) ==
    UNION { {f \in [S -> UNION {vals[k] : k \in S}] : \A k \in S : f[k] \in vals[k]}
            : S \in SUBSET DOMAIN vals }

SelKeys == {"provider", "id"}
SelCondValues ==
    [k \in SelKeys |->
        IF k = "provider" THEN {StrV(Migdal)} ELSE {StrV(One), IntV(1), BoolV(TRUE)}]
SelRecValues ==
    [k \in SelKeys |->
        IF k = "provider" THEN {StrV(Migdal)}
        ELSE {StrV(One), IntV(1), FloatV(1), BoolV(TRUE), IntV(2), ListV(<<One>>)}]

SelConfig(c) ==
    [file_name |-> "migdal.pdf", field_mappings |-> <<>>,
     required_notion_fields |-> {}, conditions |-> c]

SelCatalogs ==
    UNION { { [i \in 1..n |-> [id |-> ids[i], config |-> SelConfig(cs[i])]]
              : ids \in {q \in [1..n -> TemplateIds] :
                            \A i, j \in 1..n : i # j => q[i] # q[j]},
                cs \in [1..n -> TypedDicts(SelCondValues)] }
            : n \in 0..MaxTemplates }

----------------------------------------------------------------------------
(* Files and documents *)

FieldNames == {"f1", "f2"}

\* a form widget of page number p (0-based) named name
WidgetOn(p, name) ==
    [field_name |-> name,
     rect |-> <<10, 100 * p + (IF name = "f1" THEN 0 ELSE 40),
                110, 100 * p + (IF name = "f1" THEN 0 ELSE 40) + 20>>,
     has_font_size |-> ~(name = "f2" /\ p = 0),
     text_font_size |-> 10 + 2 * p]

\* the widget names of one page, in the page's widget order
WidgetLists == {<<>>, <<"f1">>, <<"f2">>, <<"f1", "f2">>}

PageOf(p, names) ==
    [number |-> p,
     annots |-> [k \in 1..Len(names) |-> WidgetOn(p, names[k])],
     drawn |-> <<>>]

\* the template documents: up to MaxPages pages, each with some of the widgets
Docs ==
    UNION { { [p \in 1..n |-> PageOf(p - 1, w[p])] : w \in [1..n -> WidgetLists] }
            : n \in 0..MaxPages }

PdfFile(pages) == [kind |-> "pdf", pages |-> pages]
NoFile == [kind |-> "nofile", pages |-> <<>>]      \* no file at the path
CorruptFile == [kind |-> "corrupt", pages |-> <<>>] \* a file fitz cannot open
Files == {PdfFile(d) : d \in Docs} \cup {NoFile, CorruptFile}

\* {w.field_name for page in doc for w in page.widgets()}
WidgetNames(pages) ==
    UNION { {pages[p].annots[k].field_name : k \in 1..Len(pages[p].annots)}
            : p \in 1..Len(pages) }

----------------------------------------------------------------------------
(* Template *)

MissingDataMsg == "Missing required fields"
MissingTemplateMsg == "Template missing required fields"

\* Faulty variant of MissingData: the set difference taken the wrong way round.
MissingDataSwapped(config, d) == DOMAIN d \ config.required_notion_fields

\* validate_data: self.config.required_notion_fields - set(data.keys())
MissingData(config, d) == config.required_notion_fields \ DOMAIN d

\* set(self.config.field_mappings.values())
MappingValues(config) ==
    {config.field_mappings[i][2] : i \in 1..Len(config.field_mappings)}

\* Faulty variant of MissingTemplateFields: the check compares the source keys of the
\* mapping with the template's fields instead of its destination fields.
MissingTemplateFieldsKeys(config, pages) ==
    {config.field_mappings[i][1] : i \in 1..Len(config.field_mappings)}
        \ WidgetNames(pages)

\* validate_template_fields: required_fields - template_fields
MissingTemplateFields(config, pages) == MappingValues(config) \ WidgetNames(pages)

\* Faulty variant of DictSet: a key already present keeps its value
\* (d.setdefault(k, v)).
DictSetDefault(d, k, v) ==
    IF \E i \in 1..Len(d) : d[i][1] = k
    THEN d
    ELSE Append(d, <<k, v>>)

\* d[k] = v on a dict kept as a sequence of <<key, value>> pairs in insertion
\* order: a key already present keeps its position and takes the new value
DictSet(d, k, v) ==
    IF \E i \in 1..Len(d) : d[i][1] = k
    THEN [i \in 1..Len(d) |-> IF d[i][1] = k THEN <<k, v>> ELSE d[i]]
    ELSE Append(d, <<k, v>>)

RECURSIVE MapFrom(_, _, _, _)
\* the dict comprehension of map_data_to_template, from mapping i on
MapFrom(fm, d, i, acc) ==
    IF i > Len(fm) THEN acc
    ELSE MapFrom(fm, d, i + 1,
                 DictSet(acc, fm[i][2], PyStr(GetOr(d, fm[i][1], StrV(<<>>)))))

RECURSIVE MapRequiredFrom(_, _, _, _)
MapRequiredFrom(fm, d, i, acc) ==
    IF i > Len(fm) THEN acc
    ELSE MapRequiredFrom(fm, d, i + 1, DictSet(acc, fm[i][2], PyStr(Get(d, fm[i][1]))))

\* Faulty variant of MapDataToTemplate: data.get(notion_field) without the '' default.
MapDataNoDefault(config, d) == MapRequiredFrom(config.field_mappings, d, 1, <<>>)

\* map_data_to_template
MapDataToTemplate(config, d) == MapFrom(config.field_mappings, d, 1, <<>>)

----------------------------------------------------------------------------
(* PDFHandler *)

FnSet(f, k, v) == [x \in DOMAIN f \cup {k} |-> IF x = k THEN v ELSE f[x]]
EmptyFn == [x \in {} |-> 0]

FieldInfo(page, w) ==
    [page |-> page.number, rect |-> w.rect,
     font_size |-> IF w.has_font_size THEN w.text_font_size ELSE 11]

RECURSIVE WidgetsFrom(_, _, _)
\* the inner loop of _get_form_fields over the widgets of one page
WidgetsFrom(page, k, acc) ==
    IF k > Len(page.annots) THEN acc
    ELSE WidgetsFrom(page, k + 1,
                     FnSet(acc, page.annots[k].field_name, FieldInfo(page, page.annots[k])))

RECURSIVE PagesFrom(_, _, _)
\* the outer loop of _get_form_fields over the pages
PagesFrom(pages, p, acc) ==
    IF p > Len(pages) THEN acc
    ELSE PagesFrom(pages, p + 1, WidgetsFrom(pages[p], 1, acc))

\* Faulty variant of GetFormFields: an entry already recorded is kept (the pages
\* are taken last to first, so the first occurrence is the one written last).
GetFormFieldsFirst(pages) ==
    PagesFrom([i \in 1..Len(pages) |-> pages[Len(pages) + 1 - i]], 1, EmptyFn)

\* PDFHandler._get_form_fields
GetFormFields(pages) == PagesFrom(pages, 1, EmptyFn)

\* Faulty variant of IsRtlChar: the range test excludes the first code point of
\* each range.
IsRtlCharStrict(code) ==
    \/ 1424 < code /\ code <= 1535
    \/ 1536 < code /\ code <= 1791
    \/ 64285 < code /\ code <= 64335

\* PDFHandler._is_rtl_text
IsRtlChar(code) ==
    \/ 1424 <= code /\ code <= 1535      \* 0x0590..0x05FF Hebrew
    \/ 1536 <= code /\ code <= 1791      \* 0x0600..0x06FF Arabic
    \/ 64285 <= code /\ code <= 64335    \* 0xFB1D..0xFB4F Hebrew presentation forms
IsRtlText(text) == \E i \in 1..Len(text) : IsRtlChar(text[i])

\* text[::-1]
Reversed(text) == [i \in 1..Len(text) |-> text[Len(text) + 1 - i]]

\* PDFHandler._reverse_rtl_text
ReverseRtlText(text) == IF IsRtlText(text) THEN Reversed(text) ELSE text

\* font.text_length(text, fontsize): the advance width of the text.  The font
\* metrics are the library's; the model takes one em per code point.
TextLength(text, font_size) == Len(text) * font_size

\* PDFHandler._draw_text_as_shape: the text entry written to the page
DrawnText(text, rect, font_size) ==
    LET is_rtl == IsRtlText(text)
        t == IF is_rtl THEN ReverseRtlText(text) ELSE text
        text_width == TextLength(t, font_size)
        x == IF is_rtl THEN rect[3] - text_width ELSE rect[1]
        y == (rect[2] + rect[4]) \div 2
    IN  [text |-> t, x |-> x, y |-> y, fontsize |-> font_size]

\* the page after the annotations named field_name are deleted from it
Struck(page, field_name) ==
    LET Keep(a) == a.field_name # field_name
    IN  [page EXCEPT !.annots = SelectSeq(page.annots, Keep)]

\* "if doc:" in the finally clause of fill_pdf.  doc is None or a
\* fitz.Document; a Document has __len__ (its page count) and no __bool__, so
\* it is true exactly when it has at least one page.
DocTruthy(d) == d.state # "none" /\ Len(d.pages) > 0

----------------------------------------------------------------------------
(* Control *)

NoDoc == [state |-> "none", pages |-> <<>>]
\* no request is being handled
NoWeb == [pc |-> "none", request |-> [content_type |-> "", body |-> ""],
          record |-> <<>>, drive |-> <<>>, link |-> "",
          page |-> [Status |-> "", pdf |-> ""], response |-> 0]
AbsentFile == NoFile
NoTemplate == [template_path |-> "", config |-> SelConfig(<<>>)]

\* where a method returns to, by the entry point the caller invoked
AfterDetermine == IF entry = "process_and_fill_pdf" THEN "get_template" ELSE "done"

\* TemplateCatalog.determine_template, the whole call
DetermineTemplate ==
    /\ pc = "determine_template"
    /\ LET r == SelectTemplate(templates, data) IN
         /\ returns' = Append(returns, r)
         /\ IF r.ok
            THEN /\ template_type' = r.id
                 /\ error' = error
                 /\ pc' = AfterDetermine
                 /\ log' = Append(log, "determine_template")
            ELSE /\ template_type' = template_type
                 /\ error' = ValueError(NoMatchMsg, {})
                 /\ pc' = "failed"
                 /\ log' = Append(log, "raise")
    /\ UNCHANGED <<templates, data, disk, entry, template, processed_data,
                   fields, doc, handles, out, idx>>
    /\ UNCHANGED ext

\* the caller of determine_template calls it again with the same record
CallAgain ==
    /\ entry = "determine_template"
    /\ pc \in {"done", "failed"}
    /\ Len(returns) < MaxCalls
    /\ pc' = "determine_template"
    /\ error' = NoError
    /\ template_type' = ""
    /\ log' = <<>>
    /\ UNCHANGED <<templates, data, disk, entry, returns, template,
                   processed_data, fields, doc, handles, out, idx>>
    /\ UNCHANGED ext

\* Faulty variants of ProcessDataSteps: the template is checked before the record;
\* the data is mapped before the template is checked.
ProcessDataStepsSwapped ==
    <<"validate_template_fields", "validate_data", "map_data_to_template">>
ProcessDataStepsMapEarly ==
    <<"validate_data", "map_data_to_template", "validate_template_fields">>

\* Faulty variant of ProcessDataSteps: the template is not checked at all.
ProcessDataStepsNoGeometry == <<"validate_data", "map_data_to_template">>

\* Template.process_data: the calls it makes, in order
ProcessDataSteps ==
    <<"validate_data", "validate_template_fields", "map_data_to_template">>

\* where a Template method returns to: the caller's "done" when the caller
\* invoked it directly, else the next call of process_data, else the
\* statement after process_data in process_and_fill_pdf
AfterStep(step) ==
    LET i == CHOOSE k \in 1..Len(ProcessDataSteps) : ProcessDataSteps[k] = step IN
    IF entry = step THEN "done"
    ELSE IF i < Len(ProcessDataSteps) THEN ProcessDataSteps[i + 1]
    ELSE IF entry = "process_and_fill_pdf" THEN "pdf_handler_init"
    ELSE "done"

\* TemplateCatalog.get_template, the whole call
GetTemplate ==
    /\ pc = "get_template"
    /\ IF \E i \in 1..Len(templates) : templates[i].id = template_type
       THEN LET config == (CHOOSE t \in {templates[i] : i \in 1..Len(templates)} :
                              t.id = template_type).config
            IN  /\ template' = [template_path |-> config.file_name, config |-> config]
                /\ error' = error
                /\ pc' = ProcessDataSteps[1]
                /\ log' = Append(log, "get_template")
       ELSE /\ template' = template
            /\ error' = ValueError("Unknown template type", {})
            /\ pc' = "failed"
            /\ log' = Append(log, "raise")
    /\ UNCHANGED <<templates, data, disk, entry, returns, template_type,
                   processed_data, fields, doc, handles, out, idx>>
    /\ UNCHANGED ext

\* Template.validate_data, the whole call
ValidateData ==
    /\ pc = "validate_data"
    /\ LET missing_fields == MissingData(template.config, data) IN
         IF missing_fields # {}
         THEN /\ error' = ValueError(MissingDataMsg, missing_fields)
              /\ pc' = "failed"
              /\ log' = log \o <<"validate_data", "raise">>
         ELSE /\ error' = error
              /\ pc' = AfterStep("validate_data")
              /\ log' = Append(log, "validate_data")
    /\ UNCHANGED <<templates, data, disk, entry, returns, template_type, template,
                   processed_data, fields, doc, handles, out, idx>>
    /\ UNCHANGED ext

\* the exception fitz.open raises for a path it cannot open
OpenError(file) ==
    IF file.kind = "nofile" THEN OtherError("FileNotFoundError", "no such file")
    ELSE OtherError("FileDataError", "cannot open document")

\* Template.validate_template_fields, the whole call: the document is opened
\* in a with block, which closes it on both exits
ValidateTemplateFields ==
    /\ pc = "validate_template_fields"
    /\ LET file == disk[template.template_path] IN
         IF file.kind # "pdf"
         THEN /\ error' = OpenError(file)
              /\ pc' = "failed"
              /\ log' = log \o <<"validate_template_fields", "open_failed", "raise">>
         ELSE LET missing_fields == MissingTemplateFields(template.config, file.pages)
              IN  IF missing_fields # {}
                  THEN /\ error' = ValueError(MissingTemplateMsg, missing_fields)
                       /\ pc' = "failed"
                       /\ log' = log \o <<"validate_template_fields", "vtf.open",
                                          "vtf.close", "raise">>
                  ELSE /\ error' = error
                       /\ pc' = AfterStep("validate_template_fields")
                       /\ log' = log \o <<"validate_template_fields", "vtf.open",
                                          "vtf.close">>
    /\ UNCHANGED <<templates, data, disk, entry, returns, template_type, template,
                   processed_data, fields, doc, handles, out, idx>>
    /\ UNCHANGED ext

\* Template.map_data_to_template, the whole call
MapData ==
    /\ pc = "map_data_to_template"
    /\ processed_data' = MapDataToTemplate(template.config, data)
    /\ pc' = AfterStep("map_data_to_template")
    /\ log' = Append(log, "map_data_to_template")
    /\ UNCHANGED <<templates, data, disk, entry, returns, template_type, template,
                   error, fields, doc, handles, out, idx>>
    /\ UNCHANGED ext

\* PDFHandler.__init__, the whole call: the existence check, then the
\* document opened in a with block (closed on both exits) for field discovery
PDFHandlerInit ==
    /\ pc = "pdf_handler_init"
    /\ LET file == disk[template.template_path] IN
         IF file.kind = "nofile"
         THEN /\ error' = OtherError("FileNotFoundError", "Template file not found")
              /\ fields' = fields
              /\ pc' = "failed"
              /\ log' = log \o <<"pdf_handler_init", "raise">>
         ELSE IF file.kind # "pdf"
         THEN /\ error' = OpenError(file)
              /\ fields' = fields
              /\ pc' = "failed"
              /\ log' = log \o <<"pdf_handler_init", "open_failed", "raise">>
         ELSE /\ error' = error
              /\ fields' = GetFormFields(file.pages)
              /\ pc' = "fill_open"
              /\ log' = log \o <<"pdf_handler_init", "init.open", "init.close">>
    /\ UNCHANGED <<templates, data, disk, entry, returns, template_type, template,
                   processed_data, doc, handles, out, idx>>
    /\ UNCHANGED ext

\* fill_pdf: doc = fitz.open(self.template_path).  The open fails when the
\* file cannot be opened, and may fail for an I/O error.
FillOpen ==
    /\ pc = "fill_open"
    /\ \E io_error \in BOOLEAN :
         LET file == disk[template.template_path] IN
           IF io_error \/ file.kind # "pdf"
           THEN /\ error' = (IF file.kind # "pdf" THEN OpenError(file)
                             ELSE OtherError("RuntimeError", "cannot open document"))
                /\ UNCHANGED <<doc, handles>>
                /\ pc' = "fill_finally"
                /\ log' = log \o <<"fill_pdf", "open_failed", "raise">>
           ELSE /\ error' = error
                /\ doc' = [state |-> "open", pages |-> file.pages]
                /\ handles' = handles \cup {"fill"}
                /\ pc' = "fill_loop"
                /\ log' = log \o <<"fill_pdf", "fill.open">>
    /\ idx' = 1
    /\ UNCHANGED <<templates, data, disk, entry, returns, template_type, template,
                   processed_data, fields, out>>
    /\ UNCHANGED ext

\* Faulty variant of AfterSkip: break instead of continue.
BreakOnSkip(i, n) == n + 1

\* "continue" on a field that is not in self.fields: the loop goes on with
\* the next of the n entries
AfterSkip(i, n) == i + 1

\* fill_pdf: one iteration of the loop over data.items().  Drawing the text
\* may raise.
FillField ==
    /\ pc = "fill_loop"
    /\ idx <= Len(processed_data)
    /\ LET field_name == processed_data[idx][1]
           value == processed_data[idx][2]
       IN  IF field_name \notin DOMAIN fields
           THEN /\ log' = Append(log, "fill.skip")
                /\ idx' = AfterSkip(idx, Len(processed_data))
                /\ UNCHANGED <<doc, error, pc>>
           ELSE LET field_info == fields[field_name]
                    p == field_info.page + 1
                IN  IF p > Len(doc.pages)
                    THEN /\ error' = OtherError("IndexError", "page not in document")
                         /\ pc' = "fill_finally"
                         /\ log' = log \o <<"raise">>
                         /\ UNCHANGED <<doc, idx>>
                    ELSE \E draw_error \in BOOLEAN :
                           LET struck == Struck(doc.pages[p], field_name)
                               drawn == [struck EXCEPT !.drawn =
                                           Append(@, DrawnText(value, field_info.rect,
                                                               field_info.font_size))]
                           IN  IF draw_error
                               THEN /\ doc' = [doc EXCEPT !.pages[p] = struck]
                                    /\ error' = OtherError("RuntimeError", "cannot draw text")
                                    /\ pc' = "fill_finally"
                                    /\ log' = log \o <<"fill.locate", "fill.strike", "raise">>
                                    /\ idx' = idx
                               ELSE /\ doc' = [doc EXCEPT !.pages[p] = drawn]
                                    /\ error' = error
                                    /\ pc' = pc
                                    /\ log' = log \o <<"fill.locate", "fill.strike",
                                                       "fill.direction", "fill.measure",
                                                       "fill.position", "fill.draw">>
                                    /\ idx' = idx + 1
    /\ UNCHANGED <<templates, data, disk, entry, returns, template_type, template,
                   processed_data, fields, handles, out>>
    /\ UNCHANGED ext

\* fill_pdf: doc.save(output_path, ...) after the loop.  The write may fail,
\* leaving nothing or a partial file at the output path.
FillSave ==
    /\ pc = "fill_loop"
    /\ idx > Len(processed_data)
    /\ \E outcome \in {"saved", "failed", "failed_partial"} :
         IF outcome = "saved"
         THEN /\ out' = PdfFile(doc.pages)
              /\ error' = error
              /\ log' = Append(log, "fill.save")
         ELSE /\ out' = IF outcome = "failed_partial"
                        THEN [kind |-> "partial", pages |-> <<>>] ELSE out
              /\ error' = OtherError("RuntimeError", "cannot save document")
              /\ log' = log \o <<"save_failed", "raise">>
    /\ pc' = "fill_finally"
    /\ UNCHANGED <<templates, data, disk, entry, returns, template_type, template,
                   processed_data, fields, doc, handles, idx>>
    /\ UNCHANGED ext

\* fill_pdf: the finally clause, then the return or the propagating exception
FillFinally ==
    /\ pc = "fill_finally"
    /\ IF DocTruthy(doc)
       THEN /\ doc' = [doc EXCEPT !.state = "closed"]
            /\ handles' = handles \ {"fill"}
            /\ log' = Append(log, "fill.close")
       ELSE UNCHANGED <<doc, handles, log>>
    /\ pc' = IF error = NoError THEN "done" ELSE "failed"
    /\ UNCHANGED <<templates, data, disk, entry, returns, template_type, template,
                   error, processed_data, fields, out, idx>>
    /\ UNCHANGED ext

InitCall ==
    /\ returns = <<>>
    /\ template_type = ""
    /\ error = NoError
    /\ processed_data = <<>>
    /\ fields = EmptyFn
    /\ doc = NoDoc
    /\ handles = {}
    /\ out = AbsentFile
    /\ idx = 1
    /\ log = <<>>
    /\ web = NoWeb
    /\ th = <<>>
    /\ heap = <<>>

InitSelect ==
    /\ templates \in SelCatalogs
    /\ data \in TypedDicts(SelRecValues)
    /\ disk = <<>>
    /\ entry = "determine_template"
    /\ pc = "determine_template"
    /\ template = NoTemplate
    /\ InitCall

NextSelect == DetermineTemplate \/ CallAgain

SpecSelect == InitSelect /\ [][NextSelect]_vars

----------------------------------------------------------------------------
(* Inputs of the Template checks *)

Shem == <<1513, 1501>>       \* the Hebrew word of the repository's example record
TemplateFile == "migdal.pdf"

SrcKeys == {"name", "id"}

\* field_mappings: source key -> destination field, in configuration order
Mappings ==
    UNION { {q \in [1..n -> SrcKeys \X FieldNames] :
                \A i, j \in 1..n : i # j => q[i][1] # q[j][1]}
            : n \in 0..Cardinality(SrcKeys) }

TplConfigs ==
    {[file_name |-> TemplateFile, field_mappings |-> m,
      required_notion_fields |-> r,
      conditions |-> [k \in {"provider"} |-> StrV(Migdal)]]
       : m \in Mappings, r \in SUBSET {"provider", "name"}}

RecKeys == {"provider", "name", "id"}
TplRecValues ==
    [k \in RecKeys |->
        CASE k = "provider" -> {StrV(Migdal)}
          [] k = "name" -> {StrV(Shem), IntV(12), BoolV(TRUE), ListV(<<One, Migdal>>)}
          [] k = "id" -> {StrV(One), FloatV(1)}]

\* a caller holding a Template calls one of its methods
InitTemplate ==
    /\ templates = <<>>
    /\ entry \in {"validate_data", "validate_template_fields", "map_data_to_template"}
    /\ pc = entry
    /\ InitCall
    /\ \E config \in TplConfigs :
          template = [template_path |-> config.file_name, config |-> config]
    /\ IF entry = "validate_template_fields"
       THEN data = <<>> /\ disk \in [{TemplateFile} -> Files]
       ELSE data \in TypedDicts(TplRecValues)
            /\ disk = [f \in {TemplateFile} |-> NoFile]

NextTemplate == ValidateData \/ ValidateTemplateFields \/ MapData

SpecTemplate == InitTemplate /\ [][NextTemplate]_vars

----------------------------------------------------------------------------
(* PDFHandler(template_path).fill_pdf(data, output_path) called directly *)

Texts == {<<>>, Shem, <<78>>}

\* the mapped data: field name -> text, in dict order
FillData ==
    UNION { {q \in [1..n -> FieldNames \X Texts] :
                \A i, j \in 1..n : i # j => q[i][1] # q[j][1]}
            : n \in 0..Cardinality(FieldNames) }

InitFill ==
    /\ templates = <<>>
    /\ data = <<>>
    /\ disk \in [{TemplateFile} -> Files]
    /\ entry = "fill_pdf"
    /\ pc = "pdf_handler_init"
    /\ template = [template_path |-> TemplateFile, config |-> SelConfig(<<>>)]
    /\ returns = <<>>
    /\ template_type = ""
    /\ error = NoError
    /\ processed_data \in FillData
    /\ fields = EmptyFn
    /\ doc = NoDoc
    /\ handles = {}
    /\ out = AbsentFile
    /\ idx = 1
    /\ log = <<>>
    /\ web = NoWeb
    /\ th = <<>>
    /\ heap = <<>>

NextFill == PDFHandlerInit \/ FillOpen \/ FillField \/ FillSave \/ FillFinally

SpecFill == InitFill /\ [][NextFill]_vars

----------------------------------------------------------------------------
(* fill_pdf on a one-field template, over texts around the RTL ranges *)

MaxLen == 2

\* 'A', and the code points at and next to the ends of the three ranges of
\* _is_rtl_text
BoundaryCodes == {65, 1423, 1424, 1535, 1536, 1791, 1792, 64284, 64285, 64335, 64336}

TextPool == UNION { [1..n -> BoundaryCodes] : n \in 0..MaxLen }

InitText ==
    /\ templates = <<>>
    /\ data = <<>>
    /\ disk = [f \in {TemplateFile} |-> PdfFile(<<PageOf(0, <<"f1">>)>>)]
    /\ entry = "fill_pdf"
    /\ pc = "pdf_handler_init"
    /\ template = [template_path |-> TemplateFile, config |-> SelConfig(<<>>)]
    /\ returns = <<>>
    /\ template_type = ""
    /\ error = NoError
    /\ \E text \in TextPool : processed_data = << <<"f1", text>> >>
    /\ fields = EmptyFn
    /\ doc = NoDoc
    /\ handles = {}
    /\ out = AbsentFile
    /\ idx = 1
    /\ log = <<>>
    /\ web = NoWeb
    /\ th = <<>>
    /\ heap = <<>>

NextText == PDFHandlerInit \/ FillOpen \/ FillField \/ FillSave \/ FillFinally

SpecText == InitText /\ [][NextText]_vars

----------------------------------------------------------------------------
(* EnhancedPDFHandler.process_and_fill_pdf *)

PipeRecValues ==
    [k \in RecKeys |->
        CASE k = "provider" -> {StrV(Migdal)}
          [] k = "name" -> {StrV(Shem), IntV(12)}
          [] k = "id" -> {StrV(One)}]

PipeCatalogs ==
    { <<[id |-> "t1", config |-> c]>> : c \in TplConfigs }

Init ==
    /\ templates \in PipeCatalogs
    /\ data \in TypedDicts(PipeRecValues)
    /\ disk \in [{TemplateFile} -> Files]
    /\ entry = "process_and_fill_pdf"
    /\ pc = "determine_template"
    /\ template = NoTemplate
    /\ InitCall

Next ==
    \/ DetermineTemplate
    \/ GetTemplate
    \/ ValidateData
    \/ ValidateTemplateFields
    \/ MapData
    \/ PDFHandlerInit
    \/ FillOpen
    \/ FillField
    \/ FillSave
    \/ FillFinally

Spec == Init /\ [][Next]_vars

----------------------------------------------------------------------------
(* main.py: handle_webhook *)

ContentTypes == {"application/json", "application/x-www-form-urlencoded", "text/plain"}

\* what the request carries: a body that is not JSON, no data, data without
\* 'url', a url without a 32-character page id, a url of a page
Bodies == {"invalid", "empty", "no_url", "bad_url", "url"}

Requests == [content_type : ContentTypes, body : Bodies]

WebConfigs ==
    {c \in TplConfigs :
        /\ c.required_notion_fields = {"provider", "name"}
        /\ c.field_mappings \in {<< <<"name", "f1">> >>,
                                  << <<"name", "f1">>, <<"id", "f2">> >>}}

WebCatalogs == { <<[id |-> "t1", config |-> c]>> : c \in WebConfigs }

\* the file NamedTemporaryFile(delete=False) creates
EmptyFile == [kind |-> "empty", pages |-> <<>>]

DriveLink == "webViewLink"

\* Faulty variant of TempFileFinally: the temporary file is never deleted.
TempFileFinallyKeep(file, unlink_error) == file

\* the finally clause of temp_pdf_file: the file is deleted if it exists,
\* unless os.unlink raises (the exception is logged and dropped)
TempFileFinally(file, unlink_error) ==
    IF file.kind # "nofile" /\ ~unlink_error THEN NoFile ELSE file

\* the return statements of handle_webhook: 200 at the end of the try block,
\* 400 in "except ValueError", 500 in "except Exception"
ResponseStatus(err) ==
    IF err = NoError THEN 200
    ELSE IF err.type = "ValueError" THEN 400
    ELSE 500

\* Faulty variant of WithSteps: the page is updated before the upload.
WithStepsUpdateFirst == <<"update_page_properties", "upload_file", "get_file_link">>

\* the calls of the with block of handle_webhook that follow
\* process_and_fill_pdf, in order
WithSteps == <<"upload_file", "get_file_link", "update_page_properties">>

\* the call of the with block that is next: step, when the call before it has
\* returned
WebAt(step) ==
    \/ web.pc = step
    \/ web.pc = "process_and_fill_pdf" /\ pc = "done" /\ step = WithSteps[1]

\* where a call of the with block returns to: the next call, or the end of
\* the block
AfterWithStep(step) ==
    LET i == CHOOSE k \in 1..Len(WithSteps) : WithSteps[k] = step IN
    IF i < Len(WithSteps) THEN WithSteps[i + 1] ELSE "exit"

\* parse_request_data, the whole call
ParseRequest ==
    /\ web.pc = "parse_request_data"
    /\ LET r == web.request IN
         IF r.content_type = "application/json" /\ r.body = "invalid"
         THEN /\ error' = OtherError("BadRequest", "Failed to decode JSON object")
              /\ web' = [web EXCEPT !.pc = "respond"]
              /\ log' = log \o <<"parse_request_data", "raise">>
         ELSE IF r.content_type \notin {"application/json",
                                        "application/x-www-form-urlencoded"}
         THEN /\ error' = ValueError("Unsupported Content-Type", {})
              /\ web' = [web EXCEPT !.pc = "respond"]
              /\ log' = log \o <<"parse_request_data", "raise">>
         ELSE IF r.body \in {"invalid", "empty", "no_url"}
         THEN /\ error' = ValueError("Missing required field: url", {})
              /\ web' = [web EXCEPT !.pc = "respond"]
              /\ log' = log \o <<"parse_request_data", "raise">>
         ELSE /\ error' = error
              /\ web' = [web EXCEPT !.pc = "process_notion_record"]
              /\ log' = Append(log, "parse_request_data")
    /\ UNCHANGED <<templates, data, disk, entry, pc, returns, template_type, template,
                   processed_data, fields, doc, handles, out, idx, th, heap>>

\* process_notion_record, the whole call: extract_page_id, get_record (the
\* Notion API may fail), parse_record
ProcessNotionRecord ==
    /\ web.pc = "process_notion_record"
    /\ \E api_error \in BOOLEAN :
         IF web.request.body = "bad_url"
         THEN /\ error' = ValueError("Invalid Notion page ID", {})
              /\ web' = [web EXCEPT !.pc = "respond"]
              /\ log' = log \o <<"process_notion_record", "raise">>
              /\ data' = data
         ELSE IF api_error
         THEN /\ error' = OtherError("APIResponseError", "cannot retrieve page")
              /\ web' = [web EXCEPT !.pc = "respond"]
              /\ log' = log \o <<"process_notion_record", "raise">>
              /\ data' = data
         ELSE /\ error' = error
              /\ web' = [web EXCEPT !.pc = "temp_pdf_file"]
              /\ log' = Append(log, "process_notion_record")
              /\ data' = web.record
    /\ UNCHANGED <<templates, disk, entry, pc, returns, template_type, template,
                   processed_data, fields, doc, handles, out, idx, th, heap>>

\* "with temp_pdf_file() as output_path": the temporary file is created
\* (which may fail) and process_and_fill_pdf is called
TempFileEnter ==
    /\ web.pc = "temp_pdf_file"
    /\ \E io_error \in BOOLEAN :
         IF io_error
         THEN /\ error' = OtherError("OSError", "cannot create temporary file")
              /\ web' = [web EXCEPT !.pc = "respond"]
              /\ log' = log \o <<"temp.create_failed", "raise">>
              /\ UNCHANGED <<out, pc>>
         ELSE /\ error' = error
              /\ web' = [web EXCEPT !.pc = "process_and_fill_pdf"]
              /\ log' = log \o <<"temp.create", "process_and_fill_pdf">>
              /\ out' = EmptyFile
              /\ pc' = "determine_template"
    /\ UNCHANGED <<templates, data, disk, entry, returns, template_type, template,
                   processed_data, fields, doc, handles, idx, th, heap>>

\* DriveUploader() and uploader.upload_file(output_path); either may fail
UploadFile ==
    /\ WebAt("upload_file")
    /\ \E outcome \in {"ok", "init_failed", "upload_failed"} :
         IF outcome = "ok"
         THEN /\ error' = error
              /\ web' = [web EXCEPT !.pc = AfterWithStep("upload_file"),
                                    !.drive = Append(@, out)]
              /\ log' = Append(log, "upload_file")
         ELSE /\ error' = OtherError(IF outcome = "init_failed"
                                     THEN "DefaultCredentialsError" ELSE "HttpError",
                                     "cannot upload")
              /\ web' = [web EXCEPT !.pc = "exit"]
              /\ log' = log \o <<"upload_file", "raise">>
    /\ UNCHANGED <<templates, data, disk, entry, pc, returns, template_type, template,
                   processed_data, fields, doc, handles, out, idx, th, heap>>

\* uploader.get_file_link(file['id']); the Drive API may fail
GetFileLink ==
    /\ WebAt("get_file_link")
    /\ \E api_error \in BOOLEAN :
         IF api_error
         THEN /\ error' = OtherError("HttpError", "cannot create link")
              /\ web' = [web EXCEPT !.pc = "exit"]
              /\ log' = log \o <<"get_file_link", "raise">>
         ELSE /\ error' = error
              /\ web' = [web EXCEPT !.pc = AfterWithStep("get_file_link"),
                                    !.link = DriveLink]
              /\ log' = Append(log, "get_file_link")
    /\ UNCHANGED <<templates, data, disk, entry, pc, returns, template_type, template,
                   processed_data, fields, doc, handles, out, idx, th, heap>>

\* notion.update_page_properties(page_id, {Status: "Success", pdf: link}); the
\* Notion API may fail, and then the page is not changed
UpdatePageProperties ==
    /\ WebAt("update_page_properties")
    /\ \E api_error \in BOOLEAN :
         IF api_error
         THEN /\ error' = OtherError("APIResponseError", "cannot update page")
              /\ web' = [web EXCEPT !.pc = "exit"]
              /\ log' = log \o <<"update_page_properties", "raise">>
         ELSE /\ error' = error
              /\ web' = [web EXCEPT !.pc = AfterWithStep("update_page_properties"),
                                    !.page = [Status |-> "Success", pdf |-> web.link]]
              /\ log' = Append(log, "update_page_properties")
    /\ UNCHANGED <<templates, data, disk, entry, pc, returns, template_type, template,
                   processed_data, fields, doc, handles, out, idx, th, heap>>

\* the with block is left, normally or by an exception of one of its calls:
\* the finally clause of temp_pdf_file
TempFileExit ==
    /\ \/ web.pc = "exit"
       \/ web.pc = "process_and_fill_pdf" /\ pc = "failed"
    /\ \E unlink_error \in BOOLEAN :
         /\ out' = TempFileFinally(out, unlink_error)
         /\ log' = Append(log, IF unlink_error THEN "temp.unlink_failed" ELSE "temp.unlink")
    /\ web' = [web EXCEPT !.pc = "respond"]
    /\ UNCHANGED <<templates, data, disk, entry, pc, returns, template_type, template,
                   error, processed_data, fields, doc, handles, idx, th, heap>>

\* the return statement reached: after the with block, or in an except clause
Respond ==
    /\ web.pc = "respond"
    /\ web' = [web EXCEPT !.pc = "end", !.response = ResponseStatus(error)]
    /\ log' = Append(log, "respond")
    /\ UNCHANGED <<templates, data, disk, entry, pc, returns, template_type, template,
                   error, processed_data, fields, doc, handles, out, idx, th, heap>>

InitWebhook ==
    /\ templates \in WebCatalogs
    /\ data = <<>>
    /\ disk \in [{TemplateFile} -> Files]
    /\ entry = "process_and_fill_pdf"
    /\ pc = "idle"
    /\ template = NoTemplate
    /\ returns = <<>>
    /\ template_type = ""
    /\ error = NoError
    /\ processed_data = <<>>
    /\ fields = EmptyFn
    /\ doc = NoDoc
    /\ handles = {}
    /\ out = AbsentFile
    /\ idx = 1
    /\ log = <<>>
    /\ \E r \in Requests, rec \in TypedDicts(PipeRecValues) :
          web = [NoWeb EXCEPT !.pc = "parse_request_data", !.request = r, !.record = rec]
    /\ th = <<>>
    /\ heap = <<>>

NextWebhook ==
    \/ ParseRequest
    \/ ProcessNotionRecord
    \/ TempFileEnter
    \/ DetermineTemplate
    \/ GetTemplate
    \/ ValidateData
    \/ ValidateTemplateFields
    \/ MapData
    \/ PDFHandlerInit
    \/ FillOpen
    \/ FillField
    \/ FillSave
    \/ FillFinally
    \/ UploadFile
    \/ GetFileLink
    \/ UpdatePageProperties
    \/ TempFileExit
    \/ Respond

SpecWebhook == InitWebhook /\ [][NextWebhook]_vars

----------------------------------------------------------------------------
(* TemplateCatalog._load_template_configs *)

ConfigPath == "templates_config.yaml"

\* A value of the parsed YAML document: [kind, keys, vals].  keys is what
\* iterating the value yields (the keys of a mapping, the elements of a list of
\* strings, the characters of a string); vals are the values of a mapping.
YNull == [kind |-> "null", keys |-> <<>>, vals |-> <<>>]
YInt == [kind |-> "int", keys |-> <<>>, vals |-> <<>>]
YStr(chars) == [kind |-> "str", keys |-> chars, vals |-> <<>>]
YList(elems) == [kind |-> "list", keys |-> elems, vals |-> <<>>]
YMap(pairs) ==
    [kind |-> "map",
     keys |-> [i \in 1..Len(pairs) |-> pairs[i][1]],
     vals |-> [i \in 1..Len(pairs) |-> pairs[i][2]]]

\* key in d, d[key]
YHas(d, key) == \E i \in 1..Len(d.keys) : d.keys[i] = key
YGet(d, key) == d.vals[CHOOSE i \in 1..Len(d.keys) : d.keys[i] = key]

\* set(x) raises TypeError unless x is iterable
Iterable == {"str", "list", "map"}
PySet(x) == {x.keys[i] : i \in 1..Len(x.keys)}

EntryKeys == <<"file_name", "field_mappings", "required_notion_fields", "conditions">>

\* the values an entry may hold under each key: the first is of the documented
\* type, the others are not
EntryValues ==
    [k \in {EntryKeys[i] : i \in 1..Len(EntryKeys)} |->
        CASE k = "file_name" -> <<YStr(<<"m">>), YInt>>
          [] k = "field_mappings" -> <<YMap(<< <<"name", YStr(<<"f">>)>> >>), YList(<<"name">>)>>
          [] k = "required_notion_fields" ->
                <<YList(<<"name">>), YNull, YInt, YStr(<<"i", "d">>)>>
          [] k = "conditions" -> <<YMap(<< <<"provider", YStr(<<"m">>)>> >>), YStr(<<"m">>)>>]

\* an entry by the choice made for each key: 0 = key absent, n = its n-th value
EntryOf(c) ==
    LET Present(i) == c[i] # 0
        ks == SelectSeq([i \in 1..Len(EntryKeys) |-> i], Present)
    IN  YMap([j \in 1..Len(ks) |-> <<EntryKeys[ks[j]], EntryValues[EntryKeys[ks[j]]][c[ks[j]]]>>])

\* the entries of the templates mapping: mappings with at most one of the four
\* keys absent or wrongly typed, and entries that are no mapping
ConfigEntries ==
    {EntryOf(c) : c \in {q \in [1..Len(EntryKeys) -> 0..4] :
                            /\ \A i \in 1..Len(EntryKeys) :
                                  q[i] <= Len(EntryValues[EntryKeys[i]])
                            /\ Cardinality({i \in 1..Len(EntryKeys) : q[i] # 1}) <= 1}}
        \cup {YNull, YStr(<<"m">>)}

\* the value under 'templates'
TemplatesValues ==
    UNION { { YMap([i \in 1..n |-> <<"t" \o ToString(i), es[i]>>]) : es \in [1..n -> ConfigEntries] }
            : n \in 0..MaxTemplates }
        \cup {YNull, YList(<<"t1">>)}

\* the parsed documents
ConfigDocs ==
    {YMap(<< <<"templates", t>> >>) : t \in TemplatesValues}
        \cup {YMap(<<>>), YNull, YList(<<"templates">>), YStr(<<"t">>)}

\* the configuration file: absent, not parseable as YAML, or a document
ConfigFiles ==
    {NoFile, [kind |-> "text", yaml_ok |-> FALSE, doc |-> YNull]}
        \cup {[kind |-> "text", yaml_ok |-> TRUE, doc |-> d] : d \in ConfigDocs}

Raised(t, m) == [ok |-> FALSE, value |-> <<>>, error |-> OtherError(t, m)]
Returned(v) == [ok |-> TRUE, value |-> v, error |-> NoError]

\* TemplateConfig.from_dict: the arguments are evaluated in order, the first
\* failing one raises
FromDict(e) ==
    IF e.kind # "map" THEN Raised("TypeError", "indices must be integers")
    ELSE IF ~YHas(e, "file_name") THEN Raised("KeyError", "file_name")
    ELSE IF ~YHas(e, "field_mappings") THEN Raised("KeyError", "field_mappings")
    ELSE IF ~YHas(e, "required_notion_fields")
    THEN Raised("KeyError", "required_notion_fields")
    ELSE IF YGet(e, "required_notion_fields").kind \notin Iterable
    THEN Raised("TypeError", "object is not iterable")
    ELSE IF ~YHas(e, "conditions") THEN Raised("KeyError", "conditions")
    ELSE Returned([file_name |-> YGet(e, "file_name"),
                   field_mappings |-> YGet(e, "field_mappings"),
                   required_notion_fields |-> PySet(YGet(e, "required_notion_fields")),
                   conditions |-> YGet(e, "conditions")])

RECURSIVE ConfigsFrom(_, _, _)
\* the dict comprehension over config_data['templates'].items(), from entry i on
ConfigsFrom(t, i, acc) ==
    IF i > Len(t.keys) THEN Returned(acc)
    ELSE LET r == FromDict(t.vals[i]) IN
         IF r.ok
         THEN ConfigsFrom(t, i + 1, Append(acc, [id |-> t.keys[i], config |-> r.value]))
         ELSE r

\* the try block of _load_template_configs
ParsedConfigs(file) ==
    IF ~file.yaml_ok THEN Raised("YAMLError", "cannot parse")
    ELSE IF file.doc.kind # "map" THEN Raised("TypeError", "not subscriptable")
    ELSE IF ~YHas(file.doc, "templates") THEN Raised("KeyError", "templates")
    ELSE IF YGet(file.doc, "templates").kind # "map"
    THEN Raised("AttributeError", "object has no attribute 'items'")
    ELSE ConfigsFrom(YGet(file.doc, "templates"), 1, <<>>)

\* _load_template_configs: the existence check, the try block, and the except
\* clauses that turn YAMLError and KeyError into ValueError
LoadedConfigs(file) ==
    IF file.kind = "nofile" THEN Raised("FileNotFoundError", "Config file not found")
    ELSE LET r == ParsedConfigs(file) IN
         IF r.ok THEN r
         ELSE IF r.error.type = "YAMLError"
         THEN [r EXCEPT !.error = ValueError("Error parsing YAML config", {})]
         ELSE IF r.error.type = "KeyError"
         THEN [r EXCEPT !.error = ValueError("Invalid config structure", {})]
         ELSE r

\* TemplateCatalog.__init__, the whole call
LoadTemplateConfigs ==
    /\ pc = "load_template_configs"
    /\ LET r == LoadedConfigs(disk[ConfigPath]) IN
         IF r.ok
         THEN /\ templates' = r.value
              /\ error' = error
              /\ pc' = "done"
              /\ log' = Append(log, "load_template_configs")
         ELSE /\ templates' = templates
              /\ error' = r.error
              /\ pc' = "failed"
              /\ log' = log \o <<"load_template_configs", "raise">>
    /\ UNCHANGED <<data, disk, entry, returns, template_type, template,
                   processed_data, fields, doc, handles, out, idx>>
    /\ UNCHANGED ext

InitLoad ==
    /\ templates = <<>>
    /\ data = <<>>
    /\ disk \in [{ConfigPath} -> ConfigFiles]
    /\ entry = "load_template_configs"
    /\ pc = "load_template_configs"
    /\ template = NoTemplate
    /\ InitCall

NextLoad == LoadTemplateConfigs

SpecLoad == InitLoad /\ [][NextLoad]_vars

----------------------------------------------------------------------------
(* Two callers of process_and_fill_pdf on one EnhancedPDFHandler *)

Callers == {1, 2}

OutputPath(t) == "out" \o ToString(t) \o ".pdf"

\* the variables of the single call and of the request handler
solo == <<data, entry, pc, returns, template_type, template, error, processed_data,
          fields, doc, handles, out, idx, log, web>>

ConcCatalog ==
    << [id |-> "t1",
        config |-> [file_name |-> TemplateFile,
                    field_mappings |-> << <<"name", "f1">>, <<"id", "f2">> >>,
                    required_notion_fields |-> {"provider"},
                    conditions |-> [k \in {"provider"} |-> StrV(Migdal)]]],
       [id |-> "t2",
        config |-> [file_name |-> TemplateFile,
                    field_mappings |-> << <<"name", "f2">> >>,
                    required_notion_fields |-> {"name"},
                    conditions |-> <<>>]] >>

ConcRecValues ==
    [k \in {"provider", "name"} |->
        IF k = "provider" THEN {StrV(Migdal)} ELSE {StrV(Shem), IntV(12)}]

ConcFiles ==
    {PdfFile(<<PageOf(0, <<"f1", "f2">>)>>),
     PdfFile(<<PageOf(0, <<"f1">>), PageOf(1, <<"f1", "f2">>)>>),
     PdfFile(<<PageOf(0, <<"f1">>)>>),
     NoFile}

\* the locals of a caller entering process_and_fill_pdf(data, output_path);
\* doc is the handle of the document object, 0 for None
NewCaller(rec, path) ==
    [pc |-> "determine_template", data |-> rec, output_path |-> path,
     template_type |-> "", template |-> NoTemplate, error |-> NoError,
     processed_data |-> <<>>, fields |-> EmptyFn, doc |-> 0, idx |-> 1]

\* Faulty variant of NewHandle: the document object opened first is reused.
CachedHandle(h) == 1

\* fitz.open returns a new document object
NewHandle(h) == Cardinality(DOMAIN h) + 1

\* the document a caller's doc refers to
DocOf(t) == IF th[t].doc = 0 THEN NoDoc ELSE heap[th[t].doc]

\* self.catalog.determine_template(data), the whole call
CDetermineTemplate(t) ==
    /\ th[t].pc = "determine_template"
    /\ LET r == SelectTemplate(templates, th[t].data) IN
         th' = [th EXCEPT ![t] =
                  IF r.ok THEN [@ EXCEPT !.template_type = r.id, !.pc = "get_template"]
                  ELSE [@ EXCEPT !.error = ValueError(NoMatchMsg, {}), !.pc = "failed"]]
    /\ UNCHANGED <<templates, disk, heap>>
    /\ UNCHANGED solo

\* Faulty variant of CGetTemplate: the configuration is taken out of the catalog
\* (self.templates.pop(template_type)).
CGetTemplatePop(t) ==
    /\ th[t].pc = "get_template"
    /\ IF \E i \in 1..Len(templates) : templates[i].id = th[t].template_type
       THEN LET config == (CHOOSE c \in {templates[i] : i \in 1..Len(templates)} :
                              c.id = th[t].template_type).config
                Others(c) == c.id # th[t].template_type
            IN  /\ th' = [th EXCEPT ![t].template =
                                       [template_path |-> config.file_name,
                                        config |-> config],
                                    ![t].pc = "process_data"]
                /\ templates' = SelectSeq(templates, Others)
       ELSE /\ th' = [th EXCEPT ![t].error = ValueError("Unknown template type", {}),
                                ![t].pc = "failed"]
            /\ templates' = templates
    /\ UNCHANGED <<disk, heap>>
    /\ UNCHANGED solo

\* self.catalog.get_template(template_type), the whole call
CGetTemplate(t) ==
    /\ th[t].pc = "get_template"
    /\ IF \E i \in 1..Len(templates) : templates[i].id = th[t].template_type
       THEN LET config == (CHOOSE c \in {templates[i] : i \in 1..Len(templates)} :
                              c.id = th[t].template_type).config
            IN  th' = [th EXCEPT ![t].template =
                                    [template_path |-> config.file_name,
                                     config |-> config],
                                 ![t].pc = "process_data"]
       ELSE th' = [th EXCEPT ![t].error = ValueError("Unknown template type", {}),
                             ![t].pc = "failed"]
    /\ UNCHANGED <<templates, disk, heap>>
    /\ UNCHANGED solo

\* template.process_data(data), the whole call: validate_data,
\* validate_template_fields (which opens and closes the template),
\* map_data_to_template
CProcessData(t) ==
    /\ th[t].pc = "process_data"
    /\ LET config == th[t].template.config
           file == disk[th[t].template.template_path]
       IN  th' = [th EXCEPT ![t] =
                    IF MissingData(config, th[t].data) # {}
                    THEN [@ EXCEPT !.error = ValueError(MissingDataMsg,
                                                        MissingData(config, th[t].data)),
                                   !.pc = "failed"]
                    ELSE IF file.kind # "pdf"
                    THEN [@ EXCEPT !.error = OpenError(file), !.pc = "failed"]
                    ELSE IF MissingTemplateFields(config, file.pages) # {}
                    THEN [@ EXCEPT !.error = ValueError(MissingTemplateMsg,
                                               MissingTemplateFields(config, file.pages)),
                                   !.pc = "failed"]
                    ELSE [@ EXCEPT !.processed_data = MapDataToTemplate(config, th[t].data),
                                   !.pc = "pdf_handler_init"]]
    /\ UNCHANGED <<templates, disk, heap>>
    /\ UNCHANGED solo

\* PDFHandler(str(template.template_path)), the whole call
CPDFHandlerInit(t) ==
    /\ th[t].pc = "pdf_handler_init"
    /\ LET file == disk[th[t].template.template_path] IN
         th' = [th EXCEPT ![t] =
                  IF file.kind = "nofile"
                  THEN [@ EXCEPT !.error = OtherError("FileNotFoundError",
                                                      "Template file not found"),
                                 !.pc = "failed"]
                  ELSE IF file.kind # "pdf"
                  THEN [@ EXCEPT !.error = OpenError(file), !.pc = "failed"]
                  ELSE [@ EXCEPT !.fields = GetFormFields(file.pages), !.pc = "fill_open"]]
    /\ UNCHANGED <<templates, disk, heap>>
    /\ UNCHANGED solo

\* fill_pdf: doc = fitz.open(self.template_path)
CFillOpen(t) ==
    /\ th[t].pc = "fill_open"
    /\ \E io_error \in BOOLEAN :
         LET file == disk[th[t].template.template_path] IN
           IF io_error \/ file.kind # "pdf"
           THEN /\ th' = [th EXCEPT ![t].error =
                                      (IF file.kind # "pdf" THEN OpenError(file)
                                       ELSE OtherError("RuntimeError", "cannot open document")),
                                    ![t].pc = "fill_finally"]
                /\ heap' = heap
           ELSE /\ th' = [th EXCEPT ![t].doc = NewHandle(heap), ![t].idx = 1,
                                    ![t].pc = "fill_loop"]
                /\ heap' = FnSet(heap, NewHandle(heap),
                                 [state |-> "open", pages |-> file.pages])
    /\ UNCHANGED <<templates, disk>>
    /\ UNCHANGED solo

\* fill_pdf: one iteration of the loop over data.items()
CFillField(t) ==
    /\ th[t].pc = "fill_loop"
    /\ th[t].idx <= Len(th[t].processed_data)
    /\ LET field_name == th[t].processed_data[th[t].idx][1]
           value == th[t].processed_data[th[t].idx][2]
       IN  IF field_name \notin DOMAIN th[t].fields
           THEN /\ th' = [th EXCEPT ![t].idx =
                                      AfterSkip(th[t].idx, Len(th[t].processed_data))]
                /\ heap' = heap
           ELSE LET field_info == th[t].fields[field_name]
                    p == field_info.page + 1
                IN  IF p > Len(DocOf(t).pages)
                    THEN /\ th' = [th EXCEPT ![t].error =
                                               OtherError("IndexError", "page not in document"),
                                             ![t].pc = "fill_finally"]
                         /\ heap' = heap
                    ELSE \E draw_error \in BOOLEAN :
                           LET struck == Struck(DocOf(t).pages[p], field_name)
                               drawn == [struck EXCEPT !.drawn =
                                           Append(@, DrawnText(value, field_info.rect,
                                                               field_info.font_size))]
                           IN  IF draw_error
                               THEN /\ heap' = [heap EXCEPT ![th[t].doc].pages[p] = struck]
                                    /\ th' = [th EXCEPT ![t].error =
                                                 OtherError("RuntimeError", "cannot draw text"),
                                                        ![t].pc = "fill_finally"]
                               ELSE /\ heap' = [heap EXCEPT ![th[t].doc].pages[p] = drawn]
                                    /\ th' = [th EXCEPT ![t].idx = @ + 1]
    /\ UNCHANGED <<templates, disk>>
    /\ UNCHANGED solo

\* fill_pdf: doc.save(output_path, ...)
CFillSave(t) ==
    /\ th[t].pc = "fill_loop"
    /\ th[t].idx > Len(th[t].processed_data)
    /\ \E outcome \in {"saved", "failed", "failed_partial"} :
         IF outcome = "saved"
         THEN /\ disk' = [disk EXCEPT ![th[t].output_path] = PdfFile(DocOf(t).pages)]
              /\ th' = [th EXCEPT ![t].pc = "fill_finally"]
         ELSE /\ disk' = IF outcome = "failed_partial"
                         THEN [disk EXCEPT ![th[t].output_path] =
                                              [kind |-> "partial", pages |-> <<>>]]
                         ELSE disk
              /\ th' = [th EXCEPT ![t].error =
                                     OtherError("RuntimeError", "cannot save document"),
                                  ![t].pc = "fill_finally"]
    /\ UNCHANGED <<templates, heap>>
    /\ UNCHANGED solo

\* fill_pdf: the finally clause, then the return or the propagating exception
CFillFinally(t) ==
    /\ th[t].pc = "fill_finally"
    /\ heap' = IF DocTruthy(DocOf(t))
               THEN [heap EXCEPT ![th[t].doc].state = "closed"]
               ELSE heap
    /\ th' = [th EXCEPT ![t].pc = IF th[t].error = NoError THEN "done" ELSE "failed"]
    /\ UNCHANGED <<templates, disk>>
    /\ UNCHANGED solo

InitConcurrent ==
    /\ templates = ConcCatalog
    /\ th \in {[t \in Callers |-> NewCaller(recs[t], OutputPath(t))]
                 : recs \in [Callers -> TypedDicts(ConcRecValues)]}
    /\ \E file \in ConcFiles :
          disk = [f \in {TemplateFile} \cup {OutputPath(t) : t \in Callers} |->
                     IF f = TemplateFile THEN file ELSE NoFile]
    /\ heap = <<>>
    /\ data = <<>>
    /\ entry = "process_and_fill_pdf"
    /\ pc = "idle"
    /\ template = NoTemplate
    /\ returns = <<>>
    /\ template_type = ""
    /\ error = NoError
    /\ processed_data = <<>>
    /\ fields = EmptyFn
    /\ doc = NoDoc
    /\ handles = {}
    /\ out = AbsentFile
    /\ idx = 1
    /\ log = <<>>
    /\ web = NoWeb

NextConcurrent ==
    \/ \E t \in Callers : CDetermineTemplate(t)
    \/ \E t \in Callers : CGetTemplate(t)
    \/ \E t \in Callers : CProcessData(t)
    \/ \E t \in Callers : CPDFHandlerInit(t)
    \/ \E t \in Callers : CFillOpen(t)
    \/ \E t \in Callers : CFillField(t)
    \/ \E t \in Callers : CFillSave(t)
    \/ \E t \in Callers : CFillFinally(t)

SpecConcurrent == InitConcurrent /\ [][NextConcurrent]_vars

----------------------------------------------------------------------------
(* C1, C2: determine_template *)

Matches(i) ==
    \A k \in DOMAIN templates[i].config.conditions :
        PyEq(Get(data, k), templates[i].config.conditions[k])

\* C1: every completed determine_template call returned the id of the first
\* definition, in catalog order, whose conditions the record meets
\* (record.get(k) == v for every condition), failed with the no-match error
\* exactly when no definition matches, and repeated calls on the same catalog
\* and record returned the same result.
C1_FirstMatch ==
    /\ \A c \in 1..Len(returns) :
         /\ returns[c].ok <=> \E i \in 1..Len(templates) : Matches(i)
         /\ returns[c].ok =>
              \E i \in 1..Len(templates) :
                 /\ Matches(i)
                 /\ \A j \in 1..(i - 1) : ~Matches(j)
                 /\ returns[c].id = templates[i].id
         /\ \A c2 \in 1..Len(returns) : returns[c2] = returns[c]
    /\ (pc = "failed") <=>
          (returns # <<>> /\ ~returns[Len(returns)].ok /\ pc # "determine_template")
    /\ pc = "failed" => error = ValueError(NoMatchMsg, {})
    /\ pc = "done" => error = NoError /\ template_type = returns[Len(returns)].id

\* C1 witness: two definitions both match, the call was repeated, and the id
\* returned is the first one's.
C1_Witness ==
    /\ Len(templates) >= 2
    /\ Matches(1) /\ Matches(2)
    /\ templates[1].config.conditions # templates[2].config.conditions
    /\ Len(returns) = MaxCalls
    /\ returns[1].ok /\ returns[1].id = templates[1].id

\* the kinds of value the record provider supplies: string, number, boolean, list
KindOf(v) == IF v.kind \in {"int", "float"} THEN "number" ELSE v.kind

\* C2 (the claim as stated): a definition is selected only if no record value
\* under a condition key is of another kind than the condition value.
C2_NoCrossKindMatch ==
    \A c \in 1..Len(returns) :
      returns[c].ok =>
        \A i \in 1..Len(templates) :
          templates[i].id = returns[c].id =>
            \A k \in DOMAIN templates[i].config.conditions :
               k \in DOMAIN data =>
                  KindOf(data[k]) = KindOf(templates[i].config.conditions[k])

----------------------------------------------------------------------------
(* C6, C8: Template.validate_data and Template.map_data_to_template *)

Required == template.config.required_notion_fields

\* C6: a validate_data call fails, with the ValueError carrying the missing
\* keys, exactly when required_notion_fields minus the record's keys is
\* non-empty; otherwise it returns normally; and the call changes neither the
\* record nor the definition.
C6_ValidateData ==
    /\ [](entry = "validate_data" /\ pc # "validate_data" =>
            /\ pc = "failed" <=> Required \ DOMAIN data # {}
            /\ pc = "failed" =>
                 error = ValueError(MissingDataMsg, Required \ DOMAIN data)
            /\ pc = "done" <=> Required \subseteq DOMAIN data
            /\ pc = "done" => error = NoError)
    /\ [][pc = "validate_data" => data' = data /\ template' = template]_vars

\* C6 witness: a call failed on a record that has one required key and lacks another.
C6_Witness ==
    /\ entry = "validate_data" /\ pc = "failed"
    /\ Required = {"provider", "name"}
    /\ "provider" \in DOMAIN data /\ "name" \notin DOMAIN data
    /\ error.missing = {"name"}

FieldMappings == template.config.field_mappings

\* the value processed_data holds under key k
Mapped(k) == (CHOOSE e \in {processed_data[i] : i \in 1..Len(processed_data)} : e[1] = k)[2]

\* the text map_data_to_template must emit for source key k
Emitted(k) == IF k \in DOMAIN data THEN PyStr(data[k]) ELSE <<>>

\* C8: a map_data_to_template call never fails; its result has one entry per
\* destination field of field_mappings; every (source_key, dest_field) pair
\* that no later pair overwrites yields dest_field -> str(record value), or the
\* empty string when the source key is absent; record and field_mappings are
\* left as they were.
C8_MapData ==
    /\ [](entry = "map_data_to_template" =>
            /\ pc # "failed" /\ error = NoError
            /\ pc = "done" =>
                 /\ {processed_data[i][1] : i \in 1..Len(processed_data)}
                       = MappingValues(template.config)
                 /\ \A i, j \in 1..Len(processed_data) :
                       i # j => processed_data[i][1] # processed_data[j][1]
                 /\ \A i \in 1..Len(FieldMappings) :
                       (\A j \in (i + 1)..Len(FieldMappings) :
                           FieldMappings[j][2] # FieldMappings[i][2])
                       => Mapped(FieldMappings[i][2]) = Emitted(FieldMappings[i][1]))
    /\ [][pc = "map_data_to_template" => data' = data /\ template' = template]_vars

\* C8 witness: a record with the number 12 under one mapped key and no value
\* under the other was mapped to "12" and "".
C8_Witness ==
    /\ entry = "map_data_to_template" /\ pc = "done"
    /\ FieldMappings = << <<"name", "f1">>, <<"id", "f2">> >>
    /\ "name" \in DOMAIN data /\ data["name"] = IntV(12)
    /\ "id" \notin DOMAIN data
    /\ processed_data = << <<"f1", <<49, 50>> >>, <<"f2", <<>> >> >>

----------------------------------------------------------------------------
(* C3, C4, C7: process_and_fill_pdf up to the fill *)

OpenEvents == {"vtf.open", "init.open", "fill.open"}
FillEvents == {"pdf_handler_init", "init.open", "init.close", "fill_pdf", "fill.open",
               "fill.skip", "fill.locate", "fill.strike", "fill.direction",
               "fill.measure", "fill.position", "fill.draw", "fill.save",
               "fill.close"}
Logged(e) == \E i \in 1..Len(log) : log[i] = e
\* every occurrence of event e in the log comes after an occurrence of event b
After(e, b) ==
    \A i \in 1..Len(log) : log[i] = e => \E j \in 1..(i - 1) : log[j] = b

RecordMissing == template.config.required_notion_fields \ DOMAIN data

\* C3: in process_and_fill_pdf, when the record lacks a required source field
\* of the selected template, the call fails with the validation error, no
\* document has been opened at any point, and nothing is at the output path.
C3_FailFast ==
    (template # NoTemplate /\ RecordMissing # {}) =>
        /\ pc \in {"validate_data", "failed"}
        /\ pc = "failed" => error = ValueError(MissingDataMsg, RecordMissing)
        /\ \A i \in 1..Len(log) : log[i] \notin OpenEvents \cup FillEvents
        /\ handles = {} /\ doc = NoDoc
        /\ out = AbsentFile

\* C3 witness: the validation error was raised although the template document
\* is a readable document that has every mapped field.
C3_Witness ==
    /\ pc = "failed"
    /\ error.msg = MissingDataMsg /\ error.missing = {"name"}
    /\ disk[TemplateFile].kind = "pdf"
    /\ template.config.field_mappings # <<>>
    /\ MappingValues(template.config) \subseteq WidgetNames(disk[TemplateFile].pages)

\* C4 (the claim as stated): no document is opened before validate_data,
\* validate_template_fields and map_data_to_template have all succeeded.
C4_NoOpenBeforeMapped ==
    \A e \in OpenEvents : After(e, "map_data_to_template")

\* C4 (amended): process_data runs validate_data, validate_template_fields,
\* map_data_to_template in that order and stops at the first failure;
\* validate_template_fields itself opens the template document and closes it
\* again; no other document is opened, no document is changed and nothing is
\* written until all three steps have succeeded.
C4_ProcessOrder ==
    /\ After("validate_template_fields", "validate_data")
    /\ After("map_data_to_template", "validate_template_fields")
    /\ \A i \in 1..Len(log) :
          log[i] = "raise" =>
             \A j \in (i + 1)..Len(log) : log[j] = "fill.close"
    /\ \A i \in 1..Len(log) :
          log[i] = "vtf.open" =>
             /\ i > 1 /\ log[i - 1] = "validate_template_fields"
             /\ i < Len(log) /\ log[i + 1] = "vtf.close"
    /\ \A e \in FillEvents : After(e, "map_data_to_template")
    /\ ~Logged("map_data_to_template") =>
          /\ doc = NoDoc /\ handles = {} /\ out = AbsentFile
          /\ processed_data = <<>>
    /\ pc \in {"pdf_handler_init", "fill_open", "fill_loop", "fill_finally", "done"}
          => Logged("map_data_to_template")

\* C4 witness: the three steps ran, the middle one opened and closed the
\* template, and the fill that followed saved the output.
C4_Witness ==
    /\ pc = "done"
    /\ SubSeq(log, 1, 7) = <<"determine_template", "get_template", "validate_data",
                             "validate_template_fields", "vtf.open", "vtf.close",
                             "map_data_to_template">>
    /\ Logged("fill.draw")
    /\ out.kind = "pdf"

TemplateMissing ==
    MappingValues(template.config) \ WidgetNames(disk[template.template_path].pages)

\* C7: validate_template_fields fails with the "Template missing required
\* fields" error, carrying the missing names, exactly when the template
\* document opens and some destination field of field_mappings is not the
\* name of a widget of the document; when it fails, no step of the fill
\* (PDFHandler construction, open for fill, strike, draw, save) has started.
C7_ValidateTemplateFields ==
    Logged("validate_template_fields") =>
        /\ error.msg = MissingTemplateMsg <=>
              (disk[template.template_path].kind = "pdf" /\ TemplateMissing # {})
        /\ error.msg = MissingTemplateMsg =>
              /\ error = ValueError(MissingTemplateMsg, TemplateMissing)
              /\ pc = "failed"
              /\ \A i \in 1..Len(log) : log[i] \notin FillEvents
              /\ ~Logged("map_data_to_template")
              /\ doc = NoDoc /\ handles = {} /\ out = AbsentFile
        /\ (disk[template.template_path].kind = "pdf" /\ TemplateMissing = {}) =>
              (pc = "map_data_to_template" \/ Logged("map_data_to_template"))

\* C7 witness: the template has the widget f1 but not f2, the configuration
\* maps to both, and the call failed naming f2.
C7_Witness ==
    /\ pc = "failed"
    /\ error = ValueError(MissingTemplateMsg, {"f2"})
    /\ MappingValues(template.config) = {"f1", "f2"}
    /\ WidgetNames(disk[TemplateFile].pages) = {"f1"}

----------------------------------------------------------------------------
(* C5, C9, C10: PDFHandler.fill_pdf *)

Discovered == WidgetNames(disk[TemplateFile].pages)
Count(e) == Cardinality({i \in 1..Len(log) : log[i] = e})
Entries(S) == {i \in 1..Len(processed_data) : processed_data[i][1] \in S}
AllDrawn(pages) ==
    UNION { {pages[p].drawn[k] : k \in 1..Len(pages[p].drawn)} : p \in 1..Len(pages) }

\* C5 (the claim as stated): a saved output document has no form widget left
\* on any page.
C5_NoWidgetInOutput ==
    (pc = "done" /\ out.kind = "pdf") => \A p \in 1..Len(out.pages) : out.pages[p].annots = <<>>

\* C9: skipping a mapped_data entry whose field was not discovered raises
\* nothing and the loop goes on; a fill that met no I/O error has skipped
\* exactly the undiscovered entries, drawn the text of every discovered entry
\* and saved the document.
C9_GracefulSkip ==
    /\ (log # <<>> /\ log[Len(log)] = "fill.skip") =>
          pc = "fill_loop" /\ error = NoError
    /\ (pc = "failed" /\ Logged("fill.skip")) =>
          \E i \in 1..(Len(log) - 1) :
             /\ log[i] \in {"save_failed", "fill.strike"}
             /\ log[i + 1] = "raise"
    /\ pc = "done" =>
          /\ out.kind = "pdf"
          /\ Count("fill.skip") = Cardinality(Entries(FieldNames \ Discovered))
          /\ Count("fill.draw") = Cardinality(Entries(Discovered))
          /\ \A i \in Entries(Discovered) :
                \E t \in AllDrawn(out.pages) :
                   t.text = IF IsRtlText(processed_data[i][2])
                            THEN Reversed(processed_data[i][2])
                            ELSE processed_data[i][2]

\* C9 witness: the first entry was skipped, the second was drawn, and the
\* document was saved.
C9_Witness ==
    /\ pc = "done"
    /\ Len(processed_data) = 2
    /\ SubSeq(log, 1, 6) = <<"pdf_handler_init", "init.open", "init.close",
                             "fill_pdf", "fill.open", "fill.skip">>
    /\ Logged("fill.draw")
    /\ out.kind = "pdf"
    /\ \E t \in AllDrawn(out.pages) : t.text = Reversed(Shem)

\* C10 (the claim as stated): when fill_pdf has returned or raised, no
\* document handle it opened is still open.
C10_HandlesReleased ==
    pc \in {"done", "failed"} => handles = {}

----------------------------------------------------------------------------
(* C16: direction detection *)

RtlCodePoints == (1424..1535) \cup (1536..1791) \cup (64285..64335)
TheText == processed_data[1][2]
TheRect == WidgetOn(0, "f1").rect

\* C16: the text drawn for a value is the value reversed, right-aligned at the
\* rectangle's right edge, if and only if the value has at least one code
\* point in U+0590..U+05FF, U+0600..U+06FF or U+FB1D..U+FB4F; any other
\* value, the empty string included, is drawn as it is from the left edge.
C16_Direction ==
    Logged("fill.draw") =>
        LET rtl == \E i \in 1..Len(TheText) : TheText[i] \in RtlCodePoints
            d == doc.pages[1].drawn[1]
        IN  /\ Len(doc.pages[1].drawn) = 1
            /\ IsRtlText(TheText) <=> rtl
            /\ rtl => /\ d.text = Reversed(TheText)
                      /\ d.x = TheRect[3] - Len(TheText) * d.fontsize
            /\ ~rtl => d.text = TheText /\ d.x = TheRect[1]
            /\ TheText = <<>> => ~rtl

\* C16 witness: a two-character value whose only RTL code point is U+FB4F, the
\* last of the third range, was drawn reversed.
C16_Witness ==
    /\ pc = "done"
    /\ TheText = <<65, 64335>>
    /\ out.kind = "pdf"
    /\ out.pages[1].drawn[1].text = <<64335, 65>>

----------------------------------------------------------------------------
(* C17: field discovery *)

HasWidget(p, name) ==
    \E k \in 1..Len(disk[TemplateFile].pages[p].annots) :
        disk[TemplateFile].pages[p].annots[k].field_name = name
LastPage(name) ==
    CHOOSE p \in 1..Len(disk[TemplateFile].pages) :
        /\ HasWidget(p, name)
        /\ \A q \in (p + 1)..Len(disk[TemplateFile].pages) : ~HasWidget(q, name)
LastWidget(name) ==
    LET annots == disk[TemplateFile].pages[LastPage(name)].annots
        k == CHOOSE j \in 1..Len(annots) :
                /\ annots[j].field_name = name
                /\ \A m \in (j + 1)..Len(annots) : annots[m].field_name # name
    IN  annots[k]

\* C17: after field discovery, self.fields has one entry per widget name of
\* the document, and the entry of a name holds the page index, the rectangle
\* and the font size (11 when the widget has none) of the last widget of
\* that name in page order.
C17_LastSeenWins ==
    Logged("init.close") =>
        /\ DOMAIN fields = Discovered
        /\ \A name \in Discovered :
              /\ fields[name].page = LastPage(name) - 1
              /\ fields[name].rect = LastWidget(name).rect
              /\ fields[name].font_size =
                    IF LastWidget(name).has_font_size
                    THEN LastWidget(name).text_font_size ELSE 11

\* C17 witness: f2 is on both pages, without a font size on the first; the
\* entry kept is the second page's.
C17_Witness ==
    /\ Logged("init.close")
    /\ Len(disk[TemplateFile].pages) = 2
    /\ HasWidget(1, "f2") /\ HasWidget(2, "f2")
    /\ fields["f2"] = [page |-> 1, rect |-> WidgetOn(1, "f2").rect, font_size |-> 12]

----------------------------------------------------------------------------
(* C18: the steps of one fill *)

StepsAsStated == <<"fill.locate", "fill.direction", "fill.measure", "fill.position",
                   "fill.strike", "fill.draw">>
StepsOfCode == <<"fill.locate", "fill.strike", "fill.direction", "fill.measure",
                 "fill.position", "fill.draw">>

\* the log is a run of the fill state machine whose per-field steps are steps
FillMachine(steps) ==
    /\ \A i \in 1..Len(log) :
          log[i] = steps[1] =>
             \E n \in 1..Len(steps) :
                /\ i + n - 1 <= Len(log)
                /\ SubSeq(log, i, i + n - 1) = SubSeq(steps, 1, n)
                /\ \/ n = Len(steps)
                   \/ i + n <= Len(log) /\ log[i + n] = "raise"
    /\ \A i \in 1..Len(log) : \A n \in 2..Len(steps) :
          log[i] = steps[n] => i - n + 1 >= 1 /\ log[i - n + 1] = steps[1]
    /\ Count("fill.open") <= 1
    /\ \A e \in {steps[n] : n \in 1..Len(steps)}
              \cup {"fill.skip", "fill.save", "save_failed", "fill.close"} :
          After(e, "fill.open")
    /\ Count("fill.save") <= 1
    /\ Logged("fill.save") =>
          Count("fill.skip") + Count(steps[Len(steps)]) = Len(processed_data)
    /\ \A i \in 1..Len(log) :
          log[i] \in {"raise", "fill.save"} =>
             \A j \in (i + 1)..Len(log) : log[j] = "fill.close"
    /\ \A i \in 1..Len(log) : log[i] = "fill.close" => i = Len(log)

\* C18 (the claim as stated): per field the steps are LOCATE, DIRECTION-DETECT,
\* MEASURE, POSITION, STRIKE WIDGET, DRAW in that order.
C18_AsStated == FillMachine(StepsAsStated)

\* C18 (amended): a fill is OPEN, then per discovered field LOCATE, STRIKE
\* WIDGET, DIRECTION-DETECT, MEASURE, POSITION, DRAW in that order, then SAVE,
\* then CLOSE; SAVE happens at most once and only after every entry was drawn
\* or skipped; after a failed step nothing follows but CLOSE; CLOSE, when it
\* happens, is the last step.
C18_StateMachine == FillMachine(StepsOfCode)

\* C18 witness: a fill of two fields ran OPEN, the six steps twice, SAVE, CLOSE.
C18_Witness ==
    /\ pc = "done"
    /\ log = <<"pdf_handler_init", "init.open", "init.close", "fill_pdf", "fill.open">>
                \o StepsOfCode \o StepsOfCode \o <<"fill.save", "fill.close">>

----------------------------------------------------------------------------
(* C19: geometry validation precedes the fill *)

\* C19: in process_and_fill_pdf, whenever the PDFHandler is constructed or the
\* fill is attempted, validate_template_fields has succeeded before in the
\* same run, every destination field of field_mappings is a widget name of
\* the template, and once the fields are discovered every destination field
\* is among them, so the fill skips no entry.
C19_GeometryBeforeFill ==
    /\ After("pdf_handler_init", "vtf.close")
    /\ After("fill_pdf", "vtf.close")
    /\ (pc \in {"pdf_handler_init", "fill_open", "fill_loop", "fill_finally"}
          \/ Logged("pdf_handler_init")) =>
          /\ Logged("validate_template_fields")
          /\ MappingValues(template.config) \subseteq Discovered
    /\ Logged("fill_pdf") =>
          /\ MappingValues(template.config) \subseteq DOMAIN fields
          /\ \A i \in 1..Len(processed_data) : processed_data[i][1] \in DOMAIN fields
          /\ ~Logged("fill.skip")

\* C19 witness: a fill was attempted and drew both mapped fields of a template
\* that has both.
C19_Witness ==
    /\ Logged("fill_pdf")
    /\ MappingValues(template.config) = {"f1", "f2"}
    /\ Count("fill.draw") = 2
    /\ log[4] = "validate_template_fields"

----------------------------------------------------------------------------
(* C11, C15, C20: handle_webhook *)

\* an event of the log was followed by a raise
Failed(e) == \E i \in 1..(Len(log) - 1) : log[i] = e /\ log[i + 1] = "raise"
RenderFailed == Failed("fill.strike")
SaveFailed == Failed("save_failed")

\* C11 (the claim as stated): once the request has ended after a rendering or
\* save step of its fill failed, no file is at the output path.
C11_NoOutputLeft ==
    (web.pc = "end" /\ (RenderFailed \/ SaveFailed)) => out.kind = "nofile"

\* C11 (amended): after a rendering or save step of the fill failed, the
\* document is never saved or uploaded; fill_pdf removes nothing (after a
\* rendering failure the output path holds the empty temporary file, after a
\* save failure that or a partial file); when the request ends, the
\* temporary file is gone exactly when its deletion did not fail.
C11_TempFileRemoved ==
    /\ (RenderFailed \/ SaveFailed) =>
          /\ ~Logged("fill.save") /\ web.drive = <<>>
          /\ pc \in {"fill_finally", "failed"}
    /\ (RenderFailed /\ web.pc = "process_and_fill_pdf") => out = EmptyFile
    /\ (SaveFailed /\ web.pc = "process_and_fill_pdf") => out.kind \in {"empty", "partial"}
    /\ web.pc \in {"respond", "end"} =>
          IF Logged("temp.create")
          THEN out.kind = "nofile" <=> Logged("temp.unlink")
          ELSE out = AbsentFile
    /\ Logged("temp.unlink") => out.kind = "nofile"

\* C11 witness: the save failed leaving a partial file, and the request ended
\* with a server error and nothing at the output path.
C11_Witness ==
    /\ web.pc = "end"
    /\ SaveFailed
    /\ log[Len(log) - 1] = "temp.unlink"
    /\ out = NoFile
    /\ web.response = 500

\* C15 (the claim as stated): a request that failed because a configured
\* destination field is missing from the template document is not answered
\* with 400, and the failure differs in kind from a record-validation failure.
C15_IntegrityNotClientError ==
    (web.pc = "end" /\ error.msg = MissingTemplateMsg) =>
        /\ web.response # 400
        /\ error.type # ValueError(MissingDataMsg, {}).type

\* C20: the steps of a request are logged in the order parse_request_data,
\* process_notion_record, process_and_fill_pdf, upload_file, get_file_link,
\* update_page_properties, each at most once and only after the one before
\* it returned normally; the page is updated, with Status "Success" and the
\* link, only when all of them succeeded, and exactly then the response is
\* 200; after any failure the page is left as it was and the response is 400
\* or 500.
C20_WebhookOrder ==
    /\ After("process_notion_record", "parse_request_data")
    /\ After("process_and_fill_pdf", "process_notion_record")
    /\ After("upload_file", "fill.save")
    /\ After("fill.save", "process_and_fill_pdf")
    /\ After("get_file_link", "upload_file")
    /\ After("update_page_properties", "get_file_link")
    /\ \A e \in {"parse_request_data", "process_notion_record", "process_and_fill_pdf",
                  "upload_file", "get_file_link", "update_page_properties", "respond"} :
          Count(e) <= 1
    /\ \A i \in 1..Len(log) :
          log[i] = "raise" =>
             \A j \in (i + 1)..Len(log) :
                log[j] \in {"fill.close", "temp.unlink", "temp.unlink_failed", "respond"}
    /\ web.page \in {NoWeb.page, [Status |-> "Success", pdf |-> DriveLink]}
    /\ web.page # NoWeb.page <=>
          (Logged("update_page_properties") /\ ~Failed("update_page_properties"))
    /\ web.page # NoWeb.page =>
          /\ error = NoError /\ ~Logged("raise")
          /\ Len(web.drive) = 1 /\ web.drive[1].kind = "pdf"
    /\ error # NoError => web.page = NoWeb.page
    /\ web.response \in {0, 200, 400, 500}
    /\ web.pc = "end" <=> web.response # 0
    /\ web.pc = "end" =>
          /\ web.response = 200 <=> web.page # NoWeb.page
          /\ web.response = 200 <=> error = NoError
          /\ web.response = 400 <=> error.type = "ValueError"

\* C20 witness: a request went through all six steps and was answered 200.
C20_Witness ==
    /\ web.response = 200
    /\ web.page = [Status |-> "Success", pdf |-> DriveLink]
    /\ Len(web.drive) = 1
    /\ \E t \in AllDrawn(web.drive[1].pages) : t.text = Reversed(Shem)

----------------------------------------------------------------------------
(* C12: loading the configuration *)

ConfigFile == disk[ConfigPath]

\* an entry as the configuration format describes it
WellFormed(e) ==
    /\ e.kind = "map"
    /\ \A i \in 1..Len(EntryKeys) : YHas(e, EntryKeys[i])
    /\ YGet(e, "file_name").kind = "str"
    /\ YGet(e, "field_mappings").kind = "map"
    /\ YGet(e, "required_notion_fields").kind = "list"
    /\ YGet(e, "conditions").kind = "map"

SourceMissing == ConfigFile.kind = "nofile"
SourceMalformed ==
    /\ ~SourceMissing
    /\ \/ ~ConfigFile.yaml_ok
       \/ ConfigFile.doc.kind # "map"
       \/ ~YHas(ConfigFile.doc, "templates")
       \/ YGet(ConfigFile.doc, "templates").kind # "map"
       \/ \E i \in 1..Len(YGet(ConfigFile.doc, "templates").vals) :
             ~WellFormed(YGet(ConfigFile.doc, "templates").vals[i])

\* the errors the loader raises on purpose
ConfigurationErrors == {"FileNotFoundError", "ValueError"}

\* C12 (the claim as stated): when the configuration source is missing or
\* malformed, or an entry lacks a required key, the load fails with the
\* configuration error and no catalog is produced.
C12_LoadFails ==
    (pc # "load_template_configs" /\ (SourceMissing \/ SourceMalformed)) =>
        /\ pc = "failed"
        /\ error.type \in ConfigurationErrors
        /\ templates = <<>>

----------------------------------------------------------------------------
(* C13, C14: concurrent callers *)

\* the definition under the id a caller selected
CallerConfig(t) ==
    (CHOOSE c \in {templates[i] : i \in 1..Len(templates)} :
        c.id = th[t].template_type).config

\* C13: no step of any caller changes the catalog, and whatever the
\* interleaving each caller gets what a call on its own would return: the
\* first matching id (or the no-match error), the Template of that id's
\* definition, and the mapping of its own record under that definition.
C13_CatalogReadOnly ==
    /\ [][templates' = templates]_vars
    /\ [](\A t \in Callers :
            LET r == SelectTemplate(templates, th[t].data) IN
              /\ th[t].pc # "determine_template" =>
                    IF r.ok THEN th[t].template_type = r.id
                    ELSE th[t].pc = "failed" /\ th[t].error = ValueError(NoMatchMsg, {})
              /\ (r.ok /\ th[t].pc \notin {"determine_template", "get_template"}) =>
                    th[t].template = [template_path |-> CallerConfig(t).file_name,
                                      config |-> CallerConfig(t)]
              /\ th[t].pc \in {"pdf_handler_init", "fill_open", "fill_loop",
                              "fill_finally", "done"} =>
                    th[t].processed_data = MapDataToTemplate(CallerConfig(t), th[t].data))

\* C13 witness: the two callers selected different definitions and are both
\* under way, one before process_data and one in its fill.
C13_Witness ==
    /\ th[1].template_type = "t1" /\ th[1].pc = "process_data"
    /\ th[2].template_type = "t2" /\ th[2].pc = "fill_loop"

\* the entries of caller t whose field is on page p (1-based)
OwnOnPage(t, p) ==
    {i \in 1..Len(th[t].processed_data) :
        th[t].fields[th[t].processed_data[i][1]].page + 1 = p}

\* C14: no step changes the template file; every open yields a document object
\* no caller has used before, so two callers never hold the same one; and the
\* file a caller saved has, on every page, exactly the drawn texts of that
\* caller's own mapped data and the template's widgets minus the ones that
\* caller struck.
C14_IndependentFills ==
    /\ [][disk'[TemplateFile] = disk[TemplateFile]]_vars
    /\ [][\A t \in Callers :
            th'[t].doc # th[t].doc => th'[t].doc \notin DOMAIN heap]_vars
    /\ [](\A t, u \in Callers :
            (t # u /\ th[t].doc # 0) => th[t].doc # th[u].doc)
    /\ [](\A t \in Callers :
            LET o == disk[OutputPath(t)]
                tpl == disk[TemplateFile]
            IN  /\ th[t].pc = "done" => o.kind = "pdf"
                /\ o.kind = "pdf" =>
                     /\ Len(o.pages) = Len(tpl.pages)
                     /\ \A p \in 1..Len(o.pages) :
                          /\ Len(o.pages[p].drawn) = Cardinality(OwnOnPage(t, p))
                          /\ \A k \in 1..Len(o.pages[p].drawn) :
                                \E i \in OwnOnPage(t, p) :
                                   o.pages[p].drawn[k].text =
                                      ReverseRtlText(th[t].processed_data[i][2])
                          /\ {o.pages[p].annots[k].field_name :
                                 k \in 1..Len(o.pages[p].annots)}
                               = {tpl.pages[p].annots[k].field_name :
                                     k \in 1..Len(tpl.pages[p].annots)}
                                 \ {th[t].processed_data[i][1] : i \in OwnOnPage(t, p)})

\* C14 witness: caller 1 has saved its file and not yet closed its document
\* while caller 2, filling from another record, has drawn its first field.
C14_Witness ==
    /\ th[1].pc = "fill_finally" /\ disk[OutputPath(1)].kind = "pdf"
    /\ th[2].pc = "fill_loop" /\ th[2].idx = 2
    /\ th[1].doc # 0 /\ th[2].doc # 0
    /\ heap[th[1].doc].state = "open" /\ heap[th[2].doc].state = "open"
    /\ heap[th[1].doc].pages # heap[th[2].doc].pages

----------------------------------------------------------------------------
(* C21: map_data_to_template with several source keys for one destination *)

\* field_mappings over all three keys of a record: up to three source keys,
\* any of them sharing a destination field
ManyToOneMappings ==
    UNION { {q \in [1..n -> RecKeys \X FieldNames] :
                \A i, j \in 1..n : i # j => q[i][1] # q[j][1]}
            : n \in 0..Cardinality(RecKeys) }

\* a caller holding a Template calls map_data_to_template
InitMap ==
    /\ templates = <<>>
    /\ entry = "map_data_to_template"
    /\ pc = entry
    /\ InitCall
    /\ \E m \in ManyToOneMappings :
          template = [template_path |-> TemplateFile,
                      config |-> [file_name |-> TemplateFile, field_mappings |-> m,
                                  required_notion_fields |-> {},
                                  conditions |-> <<>>]]
    /\ data \in TypedDicts(TplRecValues)
    /\ disk = [f \in {TemplateFile} |-> NoFile]

NextMap == MapData

SpecMap == InitMap /\ [][NextMap]_vars

\* the positions of field_mappings whose destination is field f
SourcesOf(f) == {i \in 1..Len(FieldMappings) : FieldMappings[i][2] = f}

\* the source key that comes last in field_mappings order among those of f
LastSourceOf(f) ==
    FieldMappings[CHOOSE i \in SourcesOf(f) : \A j \in SourcesOf(f) : j <= i][1]

\* C21: after map_data_to_template, every destination field of field_mappings,
\* also one that two or more source keys map to, has exactly one entry in the
\* result, carrying str of the record's value under the source key that comes
\* last in field_mappings order, or the empty string when the record lacks
\* that key whatever earlier source keys hold; the result's key set equals the
\* set of field_mappings values.
C21_LastSourceWins ==
    (entry = "map_data_to_template" /\ pc = "done") =>
        /\ {processed_data[i][1] : i \in 1..Len(processed_data)}
              = MappingValues(template.config)
        /\ \A f \in MappingValues(template.config) :
              /\ Cardinality({i \in 1..Len(processed_data) : processed_data[i][1] = f}) = 1
              /\ Mapped(f) = Emitted(LastSourceOf(f))

\* C21 witness: three source keys map to f1, the record has values under the
\* first two and none under the last, and the result is the single entry
\* f1 -> "".
C21_Witness ==
    /\ entry = "map_data_to_template" /\ pc = "done"
    /\ FieldMappings = << <<"provider", "f1">>, <<"name", "f1">>, <<"id", "f1">> >>
    /\ "provider" \in DOMAIN data /\ "name" \in DOMAIN data /\ "id" \notin DOMAIN data
    /\ processed_data = << <<"f1", <<>> >> >>

====
